---- MODULE Spec2Model ----
(***************************************************************************)
(* Model of the Limitless lifelog MCP bridge (src/src/limitless/client.ts, *)
(* src/src/index.ts, types in src/unnamed/part_007).                       *)
(*                                                                         *)
(* A tool invocation is validated against the tool's zod schema, issues    *)
(* one HTTP GET through LimitlessClient.handleRequest, and on the reply    *)
(* filters (searchLifelogs) and formats the page.  The remote source is    *)
(* the environment: it holds a sequence of entries and answers list        *)
(* requests by date filter, cursor offset and limit.                       *)
(*                                                                         *)
(* Conventions: an optional value (TypeScript `x?: T`) is << >> when       *)
(* absent and <<v>> when present.  A string is a sequence of characters;   *)
(* a character is a one-token TLA+ string ("a", "A", "sigma", ...).        *)
(***************************************************************************)
EXTENDS Integers, Sequences, FiniteSets, TLC

VARIABLES
    remote,     \* the remote source's entries (never written by this program)
    pc,         \* "idle" | "awaiting" (request in flight) | "done"
    call,       \* the tool invocation being served: [tool, args, params]
    sent,       \* the outbound requests issued for the current invocation
    response,   \* optional: the remote's 2xx body for the request
    result,     \* what the client method returned or threw
    output,     \* what the tool handler handed back to the host
    rejection,  \* optional: what the request was rejected with
    env,        \* the process environment (LIMITLESS_API_KEY, LIMITLESS_BASE_URL)
    api,        \* optional: the axios instance's configuration (this.api)
    server,     \* the process: phase, what createServer registered, exit code
    history,    \* observer: the last getLifelogs invocation that completed
    slots,      \* invocations in flight at once, one per concurrent caller
    walk        \* a caller paging through a range with the cursor

vars == <<remote, pc, call, sent, response, result, output, rejection,
          env, api, server, history, slots, walk>>

\* What a tool invocation served on its own leaves alone.
others == <<remote, env, api, server, history, slots, walk>>

----------------------------------------------------------------------------
(* Bounds of the model *)

MaxLen == 2         \* longest text drawn for queries and entry fields
MaxEntries == 3     \* most entries held by the remote source

(* Program constants *)

MinLimit == 1
MaxLimit == 10
DefaultLimit == 10
MaxExcerpts == 3
TimeoutMs == 30000

----------------------------------------------------------------------------
(* Optional values *)

Absent == << >>
Some(v) == <<v>>
Opt(S) == {Absent} \cup {Some(v) : v \in S}

Min(a, b) == IF a <= b THEN a ELSE b

----------------------------------------------------------------------------
(* Strings.  Alphabet holds an ASCII letter in both cases and the Greek    *)
(* letter sigma in both cases; "fsigma" is the final small sigma that      *)
(* String.prototype.toLowerCase produces for a capital sigma at the end    *)
(* of a word (Unicode SpecialCasing, Final_Sigma).                         *)

Alphabet == {"a", "A", "sigma", "SIGMA"}

RECURSIVE TextsOfLen(_)
TextsOfLen(n) ==
    IF n = 0 THEN {<< >>}
    ELSE {Append(t, c) : t \in TextsOfLen(n - 1), c \in Alphabet}

TextsUpTo(n) == UNION {TextsOfLen(k) : k \in 0..n}

IsCased(c) == c \in {"a", "A", "sigma", "SIGMA", "fsigma"}

\* The character-by-character lower-case mapping (UnicodeData.txt).
LowerChar(c) ==
    CASE c = "A" -> "a"
      [] c = "SIGMA" -> "sigma"
      [] OTHER -> c

\* Final_Sigma: the capital sigma follows a cased letter and no cased
\* letter follows it.
FinalSigma(s, i) ==
    /\ s[i] = "SIGMA"
    /\ i > 1 /\ IsCased(s[i - 1])
    /\ (i = Len(s) \/ ~IsCased(s[i + 1]))

\* String.prototype.toLowerCase
ToLowerCase(s) ==
    [i \in 1..Len(s) |-> IF FinalSigma(s, i) THEN "fsigma" ELSE LowerChar(s[i])]

\* String.prototype.includes: q occurs in s at some position.
Includes(s, q) ==
    \E k \in 0..(Len(s) - Len(q)) :
        \A j \in 1..Len(q) : s[k + j] = q[j]

----------------------------------------------------------------------------
(* Entries (LifelogEntrySchema) and the remote source *)

Days == {1, 2}

Digits == <<"1", "2", "3", "4", "5", "6", "7", "8", "9", "10", "11", "12">>
IdOf(i) == <<"e", Digits[i]>>

Item(t) == [type |-> "text", content |-> t]

\* The entry bodies built from the given field values; the id is set by
\* the position the entry takes in the remote source.
EntryBodies(titles, days, markdowns, contentss, stars) ==
    [title : titles, startDay : days, markdown : markdowns,
     contents : contentss, isStarred : stars]

WithId(b, i) ==
    [id |-> IdOf(i), title |-> b.title, startDay |-> b.startDay,
     markdown |-> b.markdown, contents |-> b.contents,
     isStarred |-> b.isStarred]

\* Every remote source of at most n entries with bodies from B.
RemoteSources(B, n) ==
    UNION {{[i \in 1..k |-> WithId(f[i], i)] : f \in [1..k -> B]} : k \in 0..n}

----------------------------------------------------------------------------
(* Tool schemas (zod), checked before a tool handler runs *)

\* The limit schema without its bounds.
LimitSchemaUnbounded(l) == TRUE

\* The limit schema with a default above its own maximum.
LimitParsedLargeDefault(l) == IF l = Absent THEN Some(MaxLimit + 1) ELSE l

\* limit: z.number().min(1).max(10).optional().default(10)
LimitSchemaOk(l) == l = Absent \/ (l[1] >= MinLimit /\ l[1] <= MaxLimit)
LimitParsed(l) == IF l = Absent THEN Some(DefaultLimit) ELSE l

\* getLifelogs tool: every field optional, limit as above.
GetLifelogsSchemaOk(p) == LimitSchemaOk(p.limit)
GetLifelogsParsed(p) == [p EXCEPT !.limit = LimitParsed(p.limit)]

\* searchLifelogs tool: query: z.string().min(1); limit as above.
SearchSchemaOk(p) == Len(p.query) >= 1 /\ LimitSchemaOk(p.limit)
SearchParsed(p) == [p EXCEPT !.limit = LimitParsed(p.limit)]

\* The lifelog_id schema without min(1).
GetEntrySchemaAnyString(p) == TRUE

\* getLifelogEntry tool: lifelog_id: z.string().min(1)
GetEntrySchemaOk(p) == Len(p.lifelog_id) >= 1

----------------------------------------------------------------------------
(* LimitlessClient: the requests it builds *)

ListPath == <<"/v1/lifelogs">>

\* A params object with every ListLifelogsParams key undefined.
NoListParams ==
    [date |-> Absent, timezone |-> Absent, start_time |-> Absent,
     end_time |-> Absent, cursor |-> Absent, sort_direction |-> Absent,
     limit |-> Absent]

\* getLifelogs, were it to ask for the newest entries first unless told.
GetLifelogsRequestNewestFirst(params) ==
    [method |-> "GET", path |-> ListPath,
     params |-> [params EXCEPT !.sort_direction =
                    IF @ = Absent THEN Some("desc") ELSE @]]

\* getLifelogs: this.api.get("/v1/lifelogs", { params })
GetLifelogsRequest(params) ==
    [method |-> "GET", path |-> ListPath, params |-> params]

\* getLifelog: this.api.get(`/v1/lifelogs/${lifelogId}`)
GetLifelogRequest(lifelogId) ==
    [method |-> "GET", path |-> ListPath \o <<"/">> \o lifelogId,
     params |-> NoListParams]

\* SearchListParams forwarding the timezone as well.
SearchListParamsWithTimezone(params) ==
    [NoListParams EXCEPT !.date = params.date_from,
                         !.timezone = params.timezone,
                         !.limit = params.limit,
                         !.cursor = params.cursor]

\* searchLifelogs: the params object handed to getLifelogs.
SearchListParams(params) ==
    [NoListParams EXCEPT !.date = params.date_from,
                         !.limit = params.limit,
                         !.cursor = params.cursor]

SearchRequest(params) == GetLifelogsRequest(SearchListParams(params))

----------------------------------------------------------------------------
(* searchLifelogs: the local filter *)

\* EntryMatches without the search in the content items.
EntryMatchesNoContents(entry, query) ==
    \/ Includes(ToLowerCase(entry.title), query)
    \/ entry.markdown # Absent /\ Includes(ToLowerCase(entry.markdown[1]), query)

\* The callback of allEntries.data.lifelogs.filter.
EntryMatches(entry, query) ==
    IF Includes(ToLowerCase(entry.title), query) THEN TRUE
    ELSE IF entry.markdown # Absent
            /\ Includes(ToLowerCase(entry.markdown[1]), query) THEN TRUE
    ELSE \E i \in 1..Len(entry.contents) :
            Includes(ToLowerCase(entry.contents[i].content), query)

\* Filter collecting the kept elements in front of the earlier ones.
RECURSIVE FilterReversed(_, _)
FilterReversed(lifelogs, query) ==
    IF lifelogs = << >> THEN << >>
    ELSE IF EntryMatches(Head(lifelogs), query)
         THEN FilterReversed(Tail(lifelogs), query) \o <<Head(lifelogs)>>
         ELSE FilterReversed(Tail(lifelogs), query)

\* Array.prototype.filter: the kept elements, in order.
RECURSIVE Filter(_, _)
Filter(lifelogs, query) ==
    IF lifelogs = << >> THEN << >>
    ELSE IF EntryMatches(Head(lifelogs), query)
         THEN <<Head(lifelogs)>> \o Filter(Tail(lifelogs), query)
         ELSE Filter(Tail(lifelogs), query)

\* SearchResponse with the count recomputed from the matches.
SearchResponseRecount(allEntries, params) ==
    LET kept == Filter(allEntries.lifelogs, ToLowerCase(params.query))
    IN  [lifelogs |-> kept,
         meta |-> IF allEntries.meta = Absent THEN Absent
                  ELSE Some([allEntries.meta[1] EXCEPT !.count = Len(kept)])]

\* The ListLifelogsResponse searchLifelogs returns for a fetched page.
SearchResponse(allEntries, params) ==
    [lifelogs |-> Filter(allEntries.lifelogs, ToLowerCase(params.query)),
     meta |-> allEntries.meta]

----------------------------------------------------------------------------
(* The remote source (GET /v1/lifelogs, GET /v1/lifelogs/{id}).  It is the *)
(* environment of the program: it filters by the date parameter (every     *)
(* entry when the date is absent), skips the entries the cursor stands     *)
(* for and returns at most limit entries.  timezone, start_time, end_time  *)
(* and sort_direction are received and not interpreted here.               *)

RemoteDated(db, params) ==
    SelectSeq(db, LAMBDA e : params.date = Absent \/ e.startDay = params.date[1])

RemoteOffset(params) == IF params.cursor = Absent THEN 0 ELSE params.cursor[1]

RemoteLimit(params) ==
    IF params.limit = Absent THEN DefaultLimit ELSE params.limit[1]

RemotePage(db, params) ==
    LET all == RemoteDated(db, params)
        from == RemoteOffset(params) + 1
        to == Min(Len(all), RemoteOffset(params) + RemoteLimit(params))
    IN  SubSeq(all, from, to)

RemoteNextCursor(db, params) ==
    LET seen == RemoteOffset(params) + Len(RemotePage(db, params))
    IN  IF seen < Len(RemoteDated(db, params)) THEN Some(seen) ELSE Absent

\* The meta object is optional; its count is the size of the page or of
\* everything the filter selects, as the source sees fit.
RemoteMetas(db, params) ==
    {Absent} \cup
    {Some([count |-> n, nextCursor |-> RemoteNextCursor(db, params)]) :
        n \in {Len(RemotePage(db, params)), Len(RemoteDated(db, params))}}

\* The 2xx bodies the source may give to a list request.
RemoteListBodies(db, params) ==
    {[lifelogs |-> RemotePage(db, params), meta |-> m, lifelog |-> Absent] :
        m \in RemoteMetas(db, params)}

\* The 2xx bodies the source may give to a single-entry request.
RemoteEntryBodies(db, path) ==
    {[lifelogs |-> << >>, meta |-> Absent, lifelog |-> Some(db[i])] :
        i \in {j \in 1..Len(db) : ListPath \o <<"/">> \o db[j].id = path}}

RemoteBodies(db, req) ==
    IF req.path = ListPath THEN RemoteListBodies(db, req.params)
    ELSE RemoteEntryBodies(db, req.path)

\* What axios rejects with: a non-2xx response (status, optional message in
\* the error body) or no response at all (network failure, timeout).
HttpFailure(status, bodyMessage, message) ==
    [isAxiosError |-> TRUE, status |-> Some(status),
     bodyMessage |-> bodyMessage, message |-> message]

TransportFailure(message) ==
    [isAxiosError |-> TRUE, status |-> Absent, bodyMessage |-> Absent,
     message |-> message]

RemoteFailures(db, req) ==
    {HttpFailure("500", Absent, "Request failed with status code 500"),
     HttpFailure("500", Some(""), "Request failed with status code 500"),
     TransportFailure("Network Error"),
     TransportFailure("timeout of 30000ms exceeded"),
     TransportFailure("canceled")}
    \cup
    (IF req.path # ListPath /\ RemoteEntryBodies(db, req.path) = {}
     THEN {HttpFailure("404", Some("Lifelog not found"),
                       "Request failed with status code 404")}
     ELSE {})

----------------------------------------------------------------------------
(* The target of a request: how the URL the client built is read *)

\* The segments of the list endpoint's path.
BaseSegments == <<<<"v1">>, <<"lifelogs">>>>

\* The position of the first of the given characters, or one past the end.
FirstAt(u, chars) ==
    IF \E i \in 1..Len(u) : u[i] \in chars
    THEN CHOOSE i \in 1..Len(u) :
            /\ u[i] \in chars
            /\ \A j \in 1..(i - 1) : u[j] \notin chars
    ELSE Len(u) + 1

\* The fragment ('#' and what follows) is not part of the request.
BeforeFragment(u) == SubSeq(u, 1, FirstAt(u, {"#"}) - 1)

\* The path ends at the first '?'.
PathOf(u) == SubSeq(BeforeFragment(u), 1, FirstAt(BeforeFragment(u), {"?"}) - 1)

\* What follows the first '?'; an empty query is no query.
SearchOf(u) ==
    SubSeq(BeforeFragment(u), FirstAt(BeforeFragment(u), {"?"}) + 1,
           Len(BeforeFragment(u)))

\* The segments of a path that starts with '/': the texts between slashes.
RECURSIVE SplitPath(_)
SplitPath(p) ==
    IF Len(p) = 0 THEN << >>
    ELSE LET rest == SubSeq(p, 2, Len(p))
             end == FirstAt(rest, {"/"})
         IN  <<SubSeq(rest, 1, end - 1)>> \o SplitPath(SubSeq(rest, end, Len(rest)))

\* Dot segments are resolved: '..' drops the segment before it, and as the
\* last segment leaves the path ending in a slash.
RECURSIVE RemoveDots(_, _)
RemoveDots(segs, done) ==
    IF Len(segs) = 0 THEN done
    ELSE IF Head(segs) = <<"..">>
    THEN LET up == SubSeq(done, 1, Len(done) - 1)
         IN  RemoveDots(Tail(segs), IF Len(segs) = 1 THEN Append(up, << >>) ELSE up)
    ELSE RemoveDots(Tail(segs), Append(done, Head(segs)))

\* The path and query that go on the wire for the URL `/v1/lifelogs...`.
Target(url) ==
    [path |-> RemoveDots(SplitPath(PathOf(Tail(url))), BaseSegments),
     search |-> SearchOf(Tail(url))]

ListTarget == [path |-> BaseSegments, search |-> << >>]

EntryTarget(id) == [path |-> Append(BaseSegments, id), search |-> << >>]

\* The request as the source receives it: the endpoint its target names.
\* A target that names no endpoint of the source is left as it is (no 2xx
\* body answers it).
Addressed(req) ==
    LET t == Target(req.path)
    IN  IF t = ListTarget THEN [req EXCEPT !.path = ListPath]
        ELSE IF Len(t.path) = 3 /\ t = EntryTarget(t.path[3]) /\ Len(t.path[3]) > 0
        THEN [req EXCEPT !.path = ListPath \o <<"/">> \o t.path[3]]
        ELSE req

----------------------------------------------------------------------------
(* LimitlessClient.handleRequest and the client methods' results *)

NoResult ==
    [kind |-> "none", lifelogs |-> << >>, meta |-> Absent,
     entry |-> Absent, error |-> Absent]

Page(lifelogs, meta) == [NoResult EXCEPT !.kind = "page",
                                         !.lifelogs = lifelogs, !.meta = meta]
Entry(e) == [NoResult EXCEPT !.kind = "entry", !.entry = e]
\* A rejected request answered with an empty page instead of a throw.
ThrownAsEmptyPage(err) == [NoResult EXCEPT !.kind = "page"]

Thrown(err) == [NoResult EXCEPT !.kind = "error", !.error = Some(err)]

\* The catch block, were the body's message taken whenever there is one.
HandleRequestErrorAnyBodyMessage(failure) ==
    IF failure.isAxiosError
    THEN [prefix |-> "Limitless API error",
          status |-> IF failure.status # Absent THEN failure.status
                     ELSE Some("unknown"),
          message |-> IF failure.bodyMessage # Absent
                      THEN failure.bodyMessage[1] ELSE failure.message]
    ELSE [prefix |-> "Limitless API error", status |-> Absent,
          message |-> failure.message]

\* The catch block of handleRequest: the Error it throws.  The message is
\* error.response?.data?.message || error.message, so an empty message in
\* the body gives way to the transport's message like a missing one.
HandleRequestError(failure) ==
    IF failure.isAxiosError
    THEN [prefix |-> "Limitless API error",
          status |-> IF failure.status # Absent THEN failure.status
                     ELSE Some("unknown"),
          message |-> IF failure.bodyMessage # Absent /\ failure.bodyMessage[1] # ""
                      THEN failure.bodyMessage[1] ELSE failure.message]
    ELSE [prefix |-> "Limitless API error", status |-> Absent,
          message |-> failure.message]

\* What the called client method returns for a 2xx body.
ClientReturn(c, body) ==
    CASE c.tool = "getLifelogs" -> Page(body.lifelogs, body.meta)
      [] c.tool = "getLifelogEntry" -> Entry(body.lifelog)
      [] c.tool = "searchLifelogs" ->
            LET r == SearchResponse(body, c.params)
            IN  Page(r.lifelogs, r.meta)
      [] OTHER -> Page(body.lifelogs, body.meta)

----------------------------------------------------------------------------
(* Tool handlers: what the host receives *)

NoOutput ==
    [isError |-> FALSE, text |-> "", count |-> 0, shown |-> << >>,
     query |-> Absent, footer |-> Absent, error |-> Absent,
     uri |-> Absent, mimeType |-> Absent]

\* The schema refused the arguments: the handler never ran.
InvalidParams == [NoOutput EXCEPT !.isError = TRUE, !.text = "Invalid arguments"]

\* The host, were it handed the error's message as a normal result.
ToolErrorAsContent(err) == [NoOutput EXCEPT !.text = "Error", !.error = Some(err)]

\* The handler threw: the host receives the error's message.
ToolError(err) == [NoOutput EXCEPT !.isError = TRUE, !.text = "Error",
                                   !.error = Some(err)]

\* The text block the getLifelogs handler builds for one entry.
ListBlock(entry) ==
    [title |-> entry.title, id |-> entry.id, starred |-> entry.isStarred,
     excerpts |-> << >>, more |-> 0]

\* The text block the searchLifelogs handler builds for one entry.
SearchBlock(entry, query) ==
    LET matchingItems ==
            SelectSeq(entry.contents,
                      LAMBDA item : Includes(ToLowerCase(item.content), query))
        n == Len(matchingItems)
    IN  [title |-> entry.title, id |-> entry.id, starred |-> FALSE,
         excerpts |-> SubSeq(matchingItems, 1, Min(n, MaxExcerpts)),
         more |-> IF n > MaxExcerpts THEN n - MaxExcerpts ELSE 0]

\* The "Showing n of m" line both list handlers append.
Footer(r) ==
    IF r.meta # Absent /\ r.meta[1].count > Len(r.lifelogs)
    THEN Some([showing |-> Len(r.lifelogs), of |-> r.meta[1].count])
    ELSE Absent

GetLifelogsOutput(params, r) ==
    IF Len(r.lifelogs) = 0
    THEN [NoOutput EXCEPT
            !.text = "No lifelog entries found for the specified criteria."]
    ELSE [NoOutput EXCEPT
            !.text = "Found lifelog entries",
            !.count = Len(r.lifelogs),
            !.shown = [i \in 1..Len(r.lifelogs) |-> ListBlock(r.lifelogs[i])],
            !.footer = Footer(r)]

\* SearchOutput reporting an empty result as an error.
SearchOutputEmptyIsError(params, r) ==
    IF Len(r.lifelogs) = 0
    THEN [NoOutput EXCEPT !.isError = TRUE, !.text = "Error",
                          !.query = Some(params.query)]
    ELSE [NoOutput EXCEPT
            !.text = "Found lifelog entries matching",
            !.query = Some(params.query),
            !.count = Len(r.lifelogs),
            !.shown = [i \in 1..Len(r.lifelogs) |->
                        SearchBlock(r.lifelogs[i], ToLowerCase(params.query))],
            !.footer = Footer(r)]

SearchOutput(params, r) ==
    IF Len(r.lifelogs) = 0
    THEN [NoOutput EXCEPT !.text = "No lifelog entries found matching",
                          !.query = Some(params.query)]
    ELSE [NoOutput EXCEPT
            !.text = "Found lifelog entries matching",
            !.query = Some(params.query),
            !.count = Len(r.lifelogs),
            !.shown = [i \in 1..Len(r.lifelogs) |->
                        SearchBlock(r.lifelogs[i], ToLowerCase(params.query))],
            !.footer = Footer(r)]

GetEntryOutput(params, r) ==
    [NoOutput EXCEPT !.text = "Entry", !.count = 1,
                     !.shown = <<ListBlock(r.entry[1])>>]

\* What the tool handler of invocation c returns once the client method
\* has returned r, or what the host sees when the method threw.
ToolOutput(c, r) ==
    IF r.kind = "error" THEN ToolError(r.error[1])
    ELSE CASE c.tool = "getLifelogs" -> GetLifelogsOutput(c.params, r)
           [] c.tool = "searchLifelogs" -> SearchOutput(c.params, r)
           [] c.tool = "getLifelogEntry" -> GetEntryOutput(c.params, r)

----------------------------------------------------------------------------
(* Resource handlers: what a resource read returns *)

ResourceNames ==
    {"today-lifelogs", "recent-lifelogs", "week-lifelogs", "starred-lifelogs"}

ResourceUri(name) ==
    CASE name = "today-lifelogs" -> "limitless://lifelogs/today"
      [] name = "recent-lifelogs" -> "limitless://lifelogs/recent"
      [] name = "week-lifelogs" -> "limitless://lifelogs/week"
      [] name = "starred-lifelogs" -> "limitless://lifelogs/starred"

\* The clock a handler reads: the day of new Date() and its day of the week
\* (0 is Sunday).
Clocks == [day : Days, dayOfWeek : 0..6]

MondayOffset(dayOfWeek) == IF dayOfWeek = 0 THEN 0 - 6 ELSE 1 - dayOfWeek

\* The parameters each handler passes to getLifelogs.
ResourceParams(name, now) ==
    CASE name = "today-lifelogs" ->
            [NoListParams EXCEPT !.date = Some(now.day), !.limit = Some(DefaultLimit)]
      [] name = "week-lifelogs" ->
            [NoListParams EXCEPT !.date = Some(now.day + MondayOffset(now.dayOfWeek)),
                                 !.limit = Some(DefaultLimit)]
      [] OTHER -> [NoListParams EXCEPT !.limit = Some(DefaultLimit)]

\* A resource handler, were it to let the error of its fetch escape.
ResourceErrorThrown(name, err) == ToolError(err)

\* The catch block of a resource handler: the error's message is returned
\* as the text of a normal text/plain content item.
ResourceError(name, err) ==
    [NoOutput EXCEPT !.text = "Error fetching", !.error = Some(err),
                     !.uri = Some(ResourceUri(name)),
                     !.mimeType = Some("text/plain")]

\* The entries a handler lists: the starred resource keeps the starred ones.
ResourceEntries(name, lifelogs) ==
    IF name = "starred-lifelogs"
    THEN SelectSeq(lifelogs, LAMBDA e : e.isStarred)
    ELSE lifelogs

ResourceContent(name, r) ==
    LET entries == ResourceEntries(name, r.lifelogs)
    IN  IF Len(entries) = 0
        THEN [NoOutput EXCEPT !.text = "No entries found",
                              !.uri = Some(ResourceUri(name)),
                              !.mimeType = Some("text/plain")]
        ELSE [NoOutput EXCEPT !.text = "Found", !.count = Len(entries),
                              !.shown = [i \in 1..Len(entries) |-> ListBlock(entries[i])],
                              !.uri = Some(ResourceUri(name)),
                              !.mimeType = Some("text/markdown")]

ResourceOutput(c, r) ==
    IF r.kind = "error" THEN ResourceError(c.tool, r.error[1])
    ELSE ResourceContent(c.tool, r)

\* What the handler of invocation c, tool or resource, hands to the host.
HandlerOutput(c, r) ==
    IF c.tool \in ResourceNames THEN ResourceOutput(c, r) ELSE ToolOutput(c, r)

----------------------------------------------------------------------------
(* 2xx responses that do not conform to the declared response schemas, and
   what the client methods and the tool handlers do with any 2xx body *)

Has(r, f) == f \in DOMAIN r
Without(r, f) == [g \in DOMAIN r \ {f} |-> r[g]]

\* LifelogContentItemSchema, LifelogEntrySchema, ListLifelogsResponseSchema
\* and GetLifelogResponseSchema: the required fields.
ItemConforms(item) == Has(item, "content") /\ Has(item, "type")

EntryConforms(entry) ==
    /\ Has(entry, "id") /\ Has(entry, "title") /\ Has(entry, "contents")
    /\ \A i \in 1..Len(entry.contents) : ItemConforms(entry.contents[i])

ListBodyConforms(body) ==
    /\ Has(body, "lifelogs")
    /\ \A i \in 1..Len(body.lifelogs) : EntryConforms(body.lifelogs[i])

EntryBodyConforms(body) ==
    /\ Has(body, "lifelog")
    /\ body.lifelog # Absent
    /\ EntryConforms(body.lifelog[1])

BodyConforms(req, body) ==
    IF req.path = ListPath THEN ListBodyConforms(body) ELSE EntryBodyConforms(body)

\* An entry as the schema does not allow it: without its title, without its
\* contents, or with a content item that has no content.
Damaged(entry) ==
    {Without(entry, "title"), Without(entry, "contents"),
     [entry EXCEPT !.contents = <<Without(Item(<<"a">>), "content")>>]}

\* A body without data.
NoDataBody == [meta |-> Absent]

\* The 2xx bodies outside the schemas the source may give: no data, no
\* data.lifelog, or a damaged entry in the page or as the entry.
MalformedListBodies(db, params) ==
    {NoDataBody} \cup
    UNION {{[lifelogs |-> [RemotePage(db, params) EXCEPT ![k] = d],
             meta |-> Absent, lifelog |-> Absent] :
                d \in Damaged(RemotePage(db, params)[k])} :
           k \in 1..Len(RemotePage(db, params))}

MalformedEntryBodies(db, path) ==
    {NoDataBody, [lifelogs |-> << >>, meta |-> Absent, lifelog |-> Absent]}
    \cup
    UNION {{[lifelogs |-> << >>, meta |-> Absent, lifelog |-> Some(d)] :
                d \in Damaged(body.lifelog[1])} :
           body \in RemoteEntryBodies(db, path)}

MalformedBodies(db, req) ==
    IF req.path = ListPath THEN MalformedListBodies(db, req.params)
    ELSE MalformedEntryBodies(db, req.path)

\* What JavaScript throws on a property read of undefined; nothing below the
\* tool boundary catches or wraps it.
TypeError ==
    [prefix |-> "TypeError", status |-> Absent,
     message |-> "Cannot read properties of undefined"]

\* The filter callback throws on this entry: entry.title.toLowerCase(),
\* entry.contents.some or item.content.toLowerCase() is reached on undefined.
EntryThrows(entry, query) ==
    IF ~Has(entry, "title") THEN TRUE
    ELSE IF Includes(ToLowerCase(entry.title), query) THEN FALSE
    ELSE IF entry.markdown # Absent
            /\ Includes(ToLowerCase(entry.markdown[1]), query) THEN FALSE
    ELSE IF ~Has(entry, "contents") THEN TRUE
    ELSE \E i \in 1..Len(entry.contents) :
            /\ ~Has(entry.contents[i], "content")
            /\ \A j \in 1..(i - 1) :
                  /\ Has(entry.contents[j], "content")
                  /\ ~Includes(ToLowerCase(entry.contents[j].content), query)

FilterThrows(lifelogs, query) ==
    \E i \in 1..Len(lifelogs) : EntryThrows(lifelogs[i], query)

\* A ListLifelogsResponse without data, returned as it came.
PageWithoutData(meta) ==
    [kind |-> "page", meta |-> meta, entry |-> Absent, error |-> Absent]

\* What the called client method returns or throws for any 2xx body: the
\* body is used as it came, no schema is applied to it.
ClientReturnAny(c, body) ==
    CASE c.tool = "getLifelogEntry" ->
            IF ~Has(body, "lifelog") THEN Thrown(TypeError)
            ELSE Entry(body.lifelog)
      [] c.tool = "searchLifelogs" ->
            IF ~Has(body, "lifelogs") THEN Thrown(TypeError)
            ELSE IF FilterThrows(body.lifelogs, ToLowerCase(c.params.query))
            THEN Thrown(TypeError)
            ELSE ClientReturn(c, body)
      [] OTHER ->
            IF Has(body, "lifelogs") THEN Page(body.lifelogs, body.meta)
            ELSE PageWithoutData(body.meta)

\* `${entry.title}` of an entry without title reads "undefined".
ListBlockAny(entry) ==
    [title |-> IF Has(entry, "title") THEN entry.title ELSE <<"undefined">>,
     id |-> entry.id, starred |-> entry.isStarred,
     excerpts |-> << >>, more |-> 0]

\* The tool handlers on whatever the client method returned: a read of a
\* property of undefined throws, and the host receives that error.
ToolOutputAny(c, r) ==
    IF r.kind = "error" THEN ToolError(r.error[1])
    ELSE CASE c.tool = "getLifelogs" ->
                IF ~Has(r, "lifelogs") THEN ToolError(TypeError)
                ELSE IF Len(r.lifelogs) = 0 THEN GetLifelogsOutput(c.params, r)
                ELSE IF \E i \in 1..Len(r.lifelogs) : ~Has(r.lifelogs[i], "contents")
                THEN ToolError(TypeError)
                ELSE [NoOutput EXCEPT
                        !.text = "Found lifelog entries",
                        !.count = Len(r.lifelogs),
                        !.shown = [i \in 1..Len(r.lifelogs) |->
                                      ListBlockAny(r.lifelogs[i])],
                        !.footer = Footer(r)]
           [] c.tool = "searchLifelogs" ->
                IF \E i \in 1..Len(r.lifelogs) :
                      \/ ~Has(r.lifelogs[i], "contents")
                      \/ \E k \in 1..Len(r.lifelogs[i].contents) :
                            ~Has(r.lifelogs[i].contents[k], "content")
                THEN ToolError(TypeError)
                ELSE SearchOutput(c.params, r)
           [] c.tool = "getLifelogEntry" ->
                IF r.entry = Absent THEN ToolError(TypeError)
                ELSE IF ~Has(r.entry[1], "contents") THEN ToolError(TypeError)
                ELSE [NoOutput EXCEPT !.text = "Entry", !.count = 1,
                                      !.shown = <<ListBlockAny(r.entry[1])>>]

\* The resource handlers on whatever getLifelogs returned: the try block
\* spans the whole handler, so a TypeError ends in its catch as well.
ResourceOutputAny(c, r) ==
    IF r.kind = "error" THEN ResourceError(c.tool, r.error[1])
    ELSE IF ~Has(r, "lifelogs") THEN ResourceError(c.tool, TypeError)
    ELSE LET entries == ResourceEntries(c.tool, r.lifelogs)
         IN  IF Len(entries) = 0 THEN ResourceContent(c.tool, r)
             ELSE [NoOutput EXCEPT
                     !.text = "Found", !.count = Len(entries),
                     !.shown = [i \in 1..Len(entries) |-> ListBlockAny(entries[i])],
                     !.uri = Some(ResourceUri(c.tool)),
                     !.mimeType = Some("text/markdown")]

HandlerOutputAny(c, r) ==
    IF c.tool \in ResourceNames THEN ResourceOutputAny(c, r) ELSE ToolOutputAny(c, r)

----------------------------------------------------------------------------
(* Startup: the entry point and the client's constructor *)

\* a || b of JavaScript on optional strings: undefined and "" are falsy.
OrElse(a, b) == IF a = Absent \/ a[1] = << >> THEN b ELSE a

\* The same on the base URLs, which are kept whole.
UrlOrElse(a, b) == IF a = Absent \/ a[1] = "" THEN b ELSE a

\* String.prototype.trim: white space removed from both ends.
Trim(s) ==
    LET inked == {i \in 1..Len(s) : s[i] # " "}
    IN  IF inked = {} THEN << >>
        ELSE SubSeq(s, CHOOSE i \in inked : \A j \in inked : i <= j,
                       CHOOSE i \in inked : \A j \in inked : j <= i)

DefaultBaseUrl == "https://api.limitless.ai"
IsUrl(u) == u # "not a url"

\* LimitlessConfigSchema: apiKey an optional string, baseUrl an optional URL
\* that defaults to the public API.
ConfigSchemaOk(config) ==
    IF config.baseUrl = Absent THEN TRUE ELSE IsUrl(config.baseUrl[1])
ConfigParsed(config) ==
    [config EXCEPT !.baseUrl = IF @ = Absent THEN Some(DefaultBaseUrl) ELSE @]

\* The constructor accepts any key that is not blank.
NewClientAnyKey(config, e) ==
    LET apiKey == OrElse(config.apiKey, e.LIMITLESS_API_KEY)
    IN  IF apiKey = Absent
        THEN [threw |-> TRUE, api |-> Absent]
        ELSE [threw |-> FALSE,
              api |-> Some([baseURL |-> UrlOrElse(config.baseUrl, Some(DefaultBaseUrl))[1],
                            apiKey |-> apiKey[1], timeout |-> TimeoutMs])]

\* new LimitlessClient(config): the key comes from the config, else from the
\* environment; without a key, or with a blank one, the constructor throws
\* before axios.create.
NewClient(config, e) ==
    LET apiKey == OrElse(config.apiKey, e.LIMITLESS_API_KEY)
    IN  IF apiKey = Absent \/ Trim(apiKey[1]) = << >>
        THEN [threw |-> TRUE, api |-> Absent]
        ELSE [threw |-> FALSE,
              api |-> Some([baseURL |-> UrlOrElse(config.baseUrl, Some(DefaultBaseUrl))[1],
                            apiKey |-> apiKey[1], timeout |-> TimeoutMs])]

\* What createServer registers on the McpServer: tools alone in 0.2.0,
\* resources, prompts and tools in 0.3.0.
Versions == {"0.2.0", "0.3.0"}
Registers(version) ==
    IF version = "0.2.0" THEN {"tools"} ELSE {"resources", "prompts", "tools"}

\* The configuration main() of 0.2.0 reads from the environment.
MainConfig(e) ==
    [apiKey |-> e.LIMITLESS_API_KEY,
     baseUrl |-> UrlOrElse(e.LIMITLESS_BASE_URL, Some(DefaultBaseUrl))]

\* createServer() of 0.3.0 is called by main() without a configuration.
EmptyConfig == [apiKey |-> Absent, baseUrl |-> Absent]

\* The configuration createServer hands to the schema: 0.2.0 takes it as
\* given, 0.3.0 fills it from the environment first.
ConfigGiven(version, config, e) ==
    IF version = "0.2.0" THEN config
    ELSE [apiKey |-> OrElse(OrElse(config.apiKey, e.LIMITLESS_API_KEY), Some(<< >>)),
          baseUrl |-> UrlOrElse(UrlOrElse(config.baseUrl, e.LIMITLESS_BASE_URL),
                                Some(DefaultBaseUrl))]

\* createServer({ config }): the schema parses the configuration, the client
\* is constructed before anything is registered, and a throw of the parse or
\* of the constructor leaves createServer (and main) with nothing registered.
CreateServer(version, config, e) ==
    LET given == ConfigGiven(version, config, e)
        client == NewClient(ConfigParsed(given), e)
        threw == ~ConfigSchemaOk(given) \/ client.threw
    IN  [threw |-> threw,
         api |-> IF threw THEN Absent ELSE client.api,
         registered |-> IF threw THEN {} ELSE Registers(version)]

NotStarted(version) ==
    [phase |-> "starting", version |-> version, entry |-> "none",
     config |-> Absent, registered |-> {}, exitCode |-> Absent]

\* createServer has been called with config from the given entry point; the
\* catch on main() exits with code 1.
Created(entry, config) ==
    LET made == CreateServer(server.version, config, env)
    IN  /\ api' = made.api
        /\ server' = [server EXCEPT
              !.entry = entry,
              !.config = Some(config),
              !.registered = made.registered,
              !.phase = IF ~made.threw THEN "connecting"
                        ELSE IF entry = "main" THEN "exited" ELSE "failed",
              !.exitCode = IF made.threw /\ entry = "main" THEN Some(1) ELSE Absent]

\* main(): a configuration the schema refuses, or a throw of createServer,
\* rejects main's promise, and the catch on main() exits with code 1.
Main ==
    /\ server.phase = "starting"
    /\ Created("main", IF server.version = "0.2.0" THEN MainConfig(env)
                       ELSE EmptyConfig)
    /\ UNCHANGED <<remote, pc, call, sent, response, result, output,
                   rejection, env, history, slots, walk>>

\* A host imports the module and calls the exported createServer with a
\* configuration of its own (already parsed by the schema).
HostCreateServer(configs) ==
    /\ server.phase = "starting"
    /\ \E config \in configs :
        /\ ConfigSchemaOk(config)
        /\ Created("host", config)
    /\ UNCHANGED <<remote, pc, call, sent, response, result, output,
                   rejection, env, history, slots, walk>>

\* server.connect(transport) resolves.
Connect ==
    /\ server.phase = "connecting"
    /\ server' = [server EXCEPT !.phase = "running"]
    /\ UNCHANGED <<remote, pc, call, sent, response, result, output,
                   rejection, env, api, history, slots, walk>>

\* server.connect(transport) rejects: main logs and exits with code 1.
ConnectFails ==
    /\ server.phase = "connecting"
    /\ server.entry = "main"
    /\ server' = [server EXCEPT !.phase = "exited", !.exitCode = Some(1)]
    /\ UNCHANGED <<remote, pc, call, sent, response, result, output,
                   rejection, env, api, history, slots, walk>>

\* The host can reach what was registered once the server is connected.
Exposed(kind) == server.phase = "running" /\ kind \in server.registered

\* The environment and the process of a server that started with a key.
ServingEnv == [LIMITLESS_API_KEY |-> Some(<<"k">>), LIMITLESS_BASE_URL |-> Absent]
ServingApi == CreateServer("0.3.0", EmptyConfig, ServingEnv).api
Serving ==
    [phase |-> "running", version |-> "0.3.0", entry |-> "main",
     config |-> Some(EmptyConfig),
     registered |-> Registers("0.3.0"), exitCode |-> Absent]

----------------------------------------------------------------------------
(* State machine *)

\* args are the arguments as the host gave them, params what the schema
\* parsed them to (defaults applied) and the handler received.
NoCall == [tool |-> "none", args |-> << >>, params |-> << >>]

\* The schema refuses the arguments: no handler runs, nothing is sent.
Reject(tool, args) ==
    /\ pc' = "done"
    /\ call' = [tool |-> tool, args |-> args, params |-> << >>]
    /\ sent' = << >>
    /\ response' = Absent
    /\ result' = NoResult
    /\ output' = InvalidParams
    /\ rejection' = Absent
    /\ UNCHANGED others

\* The client method, were it to write to the source.
IssuePost(tool, args, params, req) ==
    /\ pc' = "awaiting"
    /\ call' = [tool |-> tool, args |-> args, params |-> params]
    /\ sent' = <<[req EXCEPT !.method = "POST"]>>
    /\ response' = Absent
    /\ result' = NoResult
    /\ output' = NoOutput
    /\ rejection' = Absent
    /\ UNCHANGED others

\* The handler calls the client method, which issues req and awaits it.
Issue(tool, args, params, req) ==
    /\ pc' = "awaiting"
    /\ call' = [tool |-> tool, args |-> args, params |-> params]
    /\ sent' = <<req>>
    /\ response' = Absent
    /\ result' = NoResult
    /\ output' = NoOutput
    /\ rejection' = Absent
    /\ UNCHANGED others

\* The getLifelogs tool, were it to keep its last page and answer a repeated
\* invocation from it.
CallGetLifelogsCached(P) ==
    /\ Exposed("tools")
    /\ pc = "idle"
    /\ \E p \in P :
        IF ~GetLifelogsSchemaOk(p) THEN Reject("getLifelogs", p)
        ELSE IF history # Absent /\ history[1].args = p
        THEN /\ pc' = "done"
             /\ call' = [tool |-> "getLifelogs", args |-> p,
                         params |-> GetLifelogsParsed(p)]
             /\ sent' = << >>
             /\ response' = history[1].response
             /\ result' = history[1].result
             /\ output' = history[1].output
             /\ rejection' = Absent
             /\ UNCHANGED others
        ELSE Issue("getLifelogs", p, GetLifelogsParsed(p),
                   GetLifelogsRequest(GetLifelogsParsed(p)))

\* The host invokes the getLifelogs tool with arguments from P.
CallGetLifelogs(P) ==
    /\ Exposed("tools")
    /\ pc = "idle"
    /\ \E p \in P :
        IF GetLifelogsSchemaOk(p)
        THEN Issue("getLifelogs", p, GetLifelogsParsed(p),
                   GetLifelogsRequest(GetLifelogsParsed(p)))
        ELSE Reject("getLifelogs", p)

\* The host invokes the getLifelogEntry tool with arguments from P.
CallGetLifelogEntry(P) ==
    /\ Exposed("tools")
    /\ pc = "idle"
    /\ \E p \in P :
        IF GetEntrySchemaOk(p)
        THEN Issue("getLifelogEntry", p, p, GetLifelogRequest(p.lifelog_id))
        ELSE Reject("getLifelogEntry", p)

\* The host invokes the searchLifelogs tool with arguments from P.
CallSearchLifelogs(P) ==
    /\ Exposed("tools")
    /\ pc = "idle"
    /\ \E p \in P :
        IF SearchSchemaOk(p)
        THEN Issue("searchLifelogs", p, SearchParsed(p),
                   SearchRequest(SearchParsed(p)))
        ELSE Reject("searchLifelogs", p)

\* The host reads one of the resources named in names at a time in clocks.
ReadResource(names, clocks) ==
    /\ Exposed("resources")
    /\ pc = "idle"
    /\ \E name \in names : \E now \in clocks :
        Issue(name, now, ResourceParams(name, now),
              GetLifelogsRequest(ResourceParams(name, now)))

\* The request resolves with a 2xx body: handleRequest returns its data,
\* the client method and the tool handler run to completion.
Resolve ==
    /\ pc = "awaiting"
    /\ \E body \in RemoteBodies(remote, sent[Len(sent)]) :
        /\ response' = Some(body)
        /\ result' = ClientReturn(call, body)
        /\ output' = HandlerOutput(call, ClientReturn(call, body))
    /\ pc' = "done"
    /\ UNCHANGED <<call, sent, rejection, others>>

\* The request resolves with a 2xx body, conforming to the response schema
\* or not: handleRequest returns its data as it is.
ResolveAny ==
    /\ pc = "awaiting"
    /\ \E body \in RemoteBodies(remote, sent[Len(sent)])
                     \cup MalformedBodies(remote, sent[Len(sent)]) :
        /\ response' = Some(body)
        /\ result' = ClientReturnAny(call, body)
        /\ output' = HandlerOutputAny(call, ClientReturnAny(call, body))
    /\ pc' = "done"
    /\ UNCHANGED <<call, sent, rejection, others>>

\* Fail issuing the request once more before giving up.
FailRetrying ==
    /\ pc = "awaiting"
    /\ IF Len(sent) < 2
       THEN /\ sent' = Append(sent, sent[Len(sent)])
            /\ UNCHANGED <<pc, response, result, output, rejection>>
       ELSE /\ \E failure \in RemoteFailures(remote, sent[Len(sent)]) :
                /\ rejection' = Some(failure)
                /\ result' = Thrown(HandleRequestError(failure))
                /\ output' = HandlerOutput(call, Thrown(HandleRequestError(failure)))
            /\ response' = Absent
            /\ pc' = "done"
            /\ sent' = sent
    /\ UNCHANGED <<call, others>>

\* The request rejects: handleRequest throws, nothing catches it below
\* the tool boundary.
Fail ==
    /\ pc = "awaiting"
    /\ \E failure \in RemoteFailures(remote, sent[Len(sent)]) :
        /\ rejection' = Some(failure)
        /\ result' = Thrown(HandleRequestError(failure))
        /\ output' = HandlerOutput(call, Thrown(HandleRequestError(failure)))
    /\ response' = Absent
    /\ pc' = "done"
    /\ UNCHANGED <<call, sent, others>>

\* The request resolves with a 2xx body of the endpoint its target names.
ResolveTarget ==
    /\ pc = "awaiting"
    /\ \E body \in RemoteBodies(remote, Addressed(sent[Len(sent)])) :
        /\ response' = Some(body)
        /\ result' = ClientReturnAny(call, body)
        /\ output' = HandlerOutputAny(call, ClientReturnAny(call, body))
    /\ pc' = "done"
    /\ UNCHANGED <<call, sent, rejection, others>>

\* The request is rejected by the endpoint its target names.
FailTarget ==
    /\ pc = "awaiting"
    /\ \E failure \in RemoteFailures(remote, Addressed(sent[Len(sent)])) :
        /\ rejection' = Some(failure)
        /\ result' = Thrown(HandleRequestError(failure))
        /\ output' = HandlerOutput(call, Thrown(HandleRequestError(failure)))
    /\ response' = Absent
    /\ pc' = "done"
    /\ UNCHANGED <<call, sent, others>>

\* The handler's promise settles: nothing of the invocation is kept.
Settled ==
    /\ pc = "done"
    /\ pc' = "idle"
    /\ call' = NoCall
    /\ sent' = << >>
    /\ response' = Absent
    /\ result' = NoResult
    /\ output' = NoOutput
    /\ rejection' = Absent

\* The handler has returned.
Return ==
    /\ Settled
    /\ UNCHANGED others

----------------------------------------------------------------------------
(* Inputs *)

Timezones == {"Europe/Paris"}
Times == {"2025-11-05T14:30:00Z"}
Cursors == {1}
Limits == {Absent, Some(MinLimit - 1), Some(MinLimit), Some(MaxLimit + 1)}

ListInputs ==
    [date : Opt(Days), timezone : Opt(Timezones), start_time : Opt(Times),
     end_time : Opt(Times), cursor : Opt(Cursors),
     sort_direction : Opt({"asc", "desc"}), limit : Limits]

SearchInputs(queries, days, timezones, cursors, limits) ==
    [query : queries, date_from : Opt(days), date_to : Opt(days),
     timezone : Opt(timezones), cursor : Opt(cursors), limit : limits]

EntryInputs == [lifelog_id : {<< >>} \cup {IdOf(i) : i \in 1..(MaxEntries + 1)}]

\* Specification Spec: every tool, short texts, dated entries.
Words == {<<"a">>, <<"sigma">>}
Queries == {<< >>, <<"a">>, <<"A">>, <<"sigma">>}

Bodies == EntryBodies(Words, Days, {Absent}, {<< >>}, {FALSE})

Start(sources) ==
    /\ remote \in sources
    /\ pc = "idle"
    /\ call = NoCall
    /\ sent = << >>
    /\ response = Absent
    /\ result = NoResult
    /\ output = NoOutput
    /\ rejection = Absent
    /\ env = ServingEnv
    /\ api = ServingApi
    /\ server = Serving
    /\ history = Absent
    /\ slots = << >>
    /\ walk = << >>

Init == Start(RemoteSources(Bodies, MaxEntries))

Next ==
    \/ CallGetLifelogs(ListInputs)
    \/ CallGetLifelogEntry(EntryInputs)
    \/ CallSearchLifelogs(SearchInputs(Queries, Days, Timezones, Cursors, Limits))
    \/ Resolve
    \/ Fail
    \/ Return

Spec == Init /\ [][Next]_vars

\* Specification SpecSearch: the search tool alone, every query of at most
\* MaxLen characters, entries that differ in which field holds which text.
FieldTexts == {<<"a">>, <<"A", "sigma">>}

SearchBodies ==
    EntryBodies(FieldTexts, {1}, Opt({<<"A", "sigma">>}),
                {<< >>, <<Item(<<"a">>), Item(<<"sigma">>)>>}, {FALSE})

InitSearch == Start(RemoteSources(SearchBodies, MaxEntries))

NextSearch ==
    \/ CallSearchLifelogs(SearchInputs(TextsUpTo(MaxLen), {}, {}, {}, {Absent}))
    \/ Resolve
    \/ Fail
    \/ Return

SpecSearch == InitSearch /\ [][NextSearch]_vars

\* The handler has returned and an observer keeps what it saw of this
\* getLifelogs invocation, to compare a later one with.
Observe ==
    /\ call.tool = "getLifelogs"
    /\ sent # << >>
    /\ Settled
    /\ history' = Some([args |-> call.args, sent |-> sent, response |-> response,
                        result |-> result, output |-> output])
    /\ UNCHANGED <<remote, env, api, server, slots, walk>>

\* Specification SpecRepeat: invocations one after another against the same
\* remote data, any earlier getLifelogs invocation remembered by an observer.
RepeatListInputs ==
    {p \in ListInputs :
        /\ p = [NoListParams EXCEPT !.cursor = p.cursor, !.limit = p.limit]
        /\ p.limit \in {Absent, Some(MinLimit)}}

RepeatSearchInputs == SearchInputs({<<"a">>}, {}, {}, Cursors, {Absent})

RepeatEntryInputs == {p \in EntryInputs : p.lifelog_id \in {IdOf(1), IdOf(MaxEntries + 1)}}

NextRepeat ==
    \/ CallGetLifelogs(RepeatListInputs)
    \/ CallGetLifelogEntry(RepeatEntryInputs)
    \/ CallSearchLifelogs(RepeatSearchInputs)
    \/ Resolve
    \/ Fail
    \/ Return
    \/ Observe

SpecRepeat == Init /\ [][NextRepeat]_vars

----------------------------------------------------------------------------
(* Tool invocations in flight at once: each handler is an async function
   with locals of its own, interleaved at its await *)

Callers == {"c1", "c2"}

IdleSlot ==
    [pc |-> "idle", call |-> NoCall, sent |-> << >>, response |-> Absent,
     result |-> NoResult, output |-> NoOutput]

\* The tool's schema accepts the arguments.
Accepts(tool, args) ==
    CASE tool = "getLifelogs" -> GetLifelogsSchemaOk(args)
      [] tool = "getLifelogEntry" -> GetEntrySchemaOk(args)
      [] tool = "searchLifelogs" -> SearchSchemaOk(args)

\* What the handler receives.
ParsedArgs(tool, args) ==
    CASE tool = "getLifelogs" -> GetLifelogsParsed(args)
      [] tool = "getLifelogEntry" -> args
      [] tool = "searchLifelogs" -> SearchParsed(args)

\* The request the tool's client method issues.
RequestFor(tool, params) ==
    CASE tool = "getLifelogs" -> GetLifelogsRequest(params)
      [] tool = "getLifelogEntry" -> GetLifelogRequest(params.lifelog_id)
      [] tool = "searchLifelogs" -> SearchRequest(params)

Invocations(lists, entries, searches) ==
    {[tool |-> "getLifelogs", args |-> p] : p \in lists}
    \cup {[tool |-> "getLifelogEntry", args |-> p] : p \in entries}
    \cup {[tool |-> "searchLifelogs", args |-> p] : p \in searches}

\* The slot of an invocation the schema accepted, its request sent.
SlotAwaiting(inv) ==
    LET params == ParsedArgs(inv.tool, inv.args)
    IN  [IdleSlot EXCEPT
            !.pc = "awaiting",
            !.call = [tool |-> inv.tool, args |-> inv.args, params |-> params],
            !.sent = <<RequestFor(inv.tool, params)>>]

SlotRejected(inv) ==
    [IdleSlot EXCEPT
        !.pc = "done",
        !.call = [tool |-> inv.tool, args |-> inv.args, params |-> << >>],
        !.output = InvalidParams]

SlotResolved(slot, body) ==
    [slot EXCEPT !.pc = "done", !.response = Some(body),
                 !.result = ClientReturn(slot.call, body),
                 !.output = HandlerOutput(slot.call, ClientReturn(slot.call, body))]

SlotFailed(slot, failure) ==
    [slot EXCEPT !.pc = "done",
                 !.result = Thrown(HandleRequestError(failure)),
                 !.output = HandlerOutput(slot.call, Thrown(HandleRequestError(failure)))]

\* Caller c invokes a tool while other invocations may be in flight.
SlotCall(c, invs) ==
    /\ Exposed("tools")
    /\ slots[c].pc = "idle"
    /\ \E inv \in invs :
        slots' = [slots EXCEPT ![c] = IF Accepts(inv.tool, inv.args)
                                      THEN SlotAwaiting(inv)
                                      ELSE SlotRejected(inv)]
    /\ UNCHANGED <<remote, pc, call, sent, response, result, output,
                   rejection, env, api, server, history, walk>>

\* The request in flight, were it held in a field all invocations of a tool
\* share: the one that resolves reads the request another one wrote last.
SlotResolveShared(c) ==
    /\ slots[c].pc = "awaiting"
    /\ \E o \in Callers :
        /\ slots[o].pc = "awaiting"
        /\ slots[o].call.tool = slots[c].call.tool
        /\ \E body \in RemoteBodies(remote, slots[o].sent[1]) :
            slots' = [slots EXCEPT ![c] = SlotResolved(slots[c], body)]
    /\ UNCHANGED <<remote, pc, call, sent, response, result, output,
                   rejection, env, api, server, history, walk>>

\* The request of caller c resolves.
SlotResolve(c) ==
    /\ slots[c].pc = "awaiting"
    /\ \E body \in RemoteBodies(remote, slots[c].sent[1]) :
        slots' = [slots EXCEPT ![c] = SlotResolved(slots[c], body)]
    /\ UNCHANGED <<remote, pc, call, sent, response, result, output,
                   rejection, env, api, server, history, walk>>

\* The request of caller c rejects.
SlotFail(c) ==
    /\ slots[c].pc = "awaiting"
    /\ \E failure \in RemoteFailures(remote, slots[c].sent[1]) :
        slots' = [slots EXCEPT ![c] = SlotFailed(slots[c], failure)]
    /\ UNCHANGED <<remote, pc, call, sent, response, result, output,
                   rejection, env, api, server, history, walk>>

\* The handler of caller c has returned.
SlotReturn(c) ==
    /\ slots[c].pc = "done"
    /\ slots' = [slots EXCEPT ![c] = IdleSlot]
    /\ UNCHANGED <<remote, pc, call, sent, response, result, output,
                   rejection, env, api, server, history, walk>>

\* Specification SpecConcurrent: two callers whose invocations interleave.
ConcurrentBodies == EntryBodies(Words, {1}, {Absent}, {<< >>}, {FALSE})

ConcurrentInvocations ==
    Invocations(RepeatListInputs, RepeatEntryInputs,
                SearchInputs({<< >>, <<"a">>}, {}, {}, {}, {Absent}))

InitConcurrent ==
    /\ remote \in RemoteSources(ConcurrentBodies, MaxEntries)
    /\ pc = "idle"
    /\ call = NoCall
    /\ sent = << >>
    /\ response = Absent
    /\ result = NoResult
    /\ output = NoOutput
    /\ rejection = Absent
    /\ env = ServingEnv
    /\ api = ServingApi
    /\ server = Serving
    /\ history = Absent
    /\ slots = [c \in Callers |-> IdleSlot]
    /\ walk = << >>

NextConcurrent ==
    \E c \in Callers :
        \/ SlotCall(c, ConcurrentInvocations)
        \/ SlotResolve(c)
        \/ SlotFail(c)
        \/ SlotReturn(c)

SpecConcurrent == InitConcurrent /\ [][NextConcurrent]_vars

\* Specification SpecPages: the two tools that return pages, under every
\* limit the schema accepts and the nearest ones it refuses.
AllLimits == {Absent} \cup {Some(l) : l \in (MinLimit - 1)..(MaxLimit + 1)}

PagesListInputs ==
    [date : Opt(Days), timezone : Opt(Timezones), start_time : Opt(Times),
     end_time : Opt(Times), cursor : Opt(Cursors),
     sort_direction : Opt({"asc", "desc"}), limit : AllLimits]

PagesSearchInputs == SearchInputs({<<"a">>}, Days, {}, Cursors, AllLimits)

PagesBodies == EntryBodies(Words, {1}, {Absent}, {<< >>}, {FALSE})

InitPages == Start(RemoteSources(PagesBodies, MaxEntries))

NextPages ==
    \/ CallGetLifelogs(PagesListInputs)
    \/ CallSearchLifelogs(PagesSearchInputs)
    \/ Resolve
    \/ Fail
    \/ Return

SpecPages == InitPages /\ [][NextPages]_vars

----------------------------------------------------------------------------
(* A caller of the client paging through a range with the cursor *)

NoWalk ==
    [phase |-> "idle", tool |-> "none", args |-> << >>, cursor |-> Absent,
     collected |-> << >>]

\* The cursor the page's meta gives for the following page, if any.
NextCursorOf(r) == IF r.meta = Absent THEN Absent ELSE r.meta[1].nextCursor

\* The caller begins a traversal: the first invocation carries no cursor.
WalkStart(invs) ==
    /\ walk.phase = "idle"
    /\ pc = "idle"
    /\ \E inv \in invs :
        /\ inv.args.cursor = Absent
        /\ Accepts(inv.tool, inv.args)
        /\ walk' = [NoWalk EXCEPT !.phase = "paging", !.tool = inv.tool,
                                  !.args = inv.args]
    /\ UNCHANGED <<remote, pc, call, sent, response, result, output,
                   rejection, env, api, server, history, slots>>

\* The caller invokes the tool's client method for the next page, with the
\* cursor of the last one.
WalkIssue ==
    /\ walk.phase = "paging"
    /\ IF walk.tool = "getLifelogs"
       THEN CallGetLifelogs({[walk.args EXCEPT !.cursor = walk.cursor]})
       ELSE CallSearchLifelogs({[walk.args EXCEPT !.cursor = walk.cursor]})

\* The method has returned: the caller keeps the page's entries and stops
\* when the page is shorter than the limit, goes on when it is full and
\* names a following page, and has nothing to go on with otherwise.
WalkCollect ==
    /\ walk.phase = "paging"
    /\ Settled
    /\ walk' =
          IF result.kind # "page" THEN [walk EXCEPT !.phase = "failed"]
          ELSE [walk EXCEPT
                  !.collected = @ \o result.lifelogs,
                  !.cursor = NextCursorOf(result),
                  !.phase = IF Len(result.lifelogs) < call.params.limit[1]
                            THEN "stopped"
                            ELSE IF NextCursorOf(result) # Absent THEN "paging"
                            ELSE "ended"]
    /\ UNCHANGED <<remote, env, api, server, history, slots>>

\* Specification SpecPaging: one traversal of the list or of a search.
WalkLimits == {Some(MinLimit), Some(MinLimit + 1)}

WalkInvocations ==
    Invocations({p \in ListInputs :
                    p = [NoListParams EXCEPT !.limit = p.limit] /\ p.limit \in WalkLimits},
                {},
                SearchInputs({<<"a">>}, {}, {}, {}, WalkLimits))

InitPaging ==
    /\ remote \in RemoteSources(PagesBodies, MaxEntries)
    /\ pc = "idle"
    /\ call = NoCall
    /\ sent = << >>
    /\ response = Absent
    /\ result = NoResult
    /\ output = NoOutput
    /\ rejection = Absent
    /\ env = ServingEnv
    /\ api = ServingApi
    /\ server = Serving
    /\ history = Absent
    /\ slots = << >>
    /\ walk = NoWalk

NextPaging ==
    \/ WalkStart(WalkInvocations)
    \/ WalkIssue
    \/ Resolve
    \/ Fail
    \/ WalkCollect

SpecPaging == InitPaging /\ [][NextPaging]_vars

\* Specification SpecMalformed: the three tools against a source whose 2xx
\* bodies may lie outside the response schemas.
MalformedListInputs ==
    {p \in ListInputs : p = [NoListParams EXCEPT !.limit = p.limit]}

MalformedSearchInputs == SearchInputs({<<"a">>, <<"sigma">>}, {}, {}, {}, {Absent})

InitMalformed == Start(RemoteSources(PagesBodies, MaxEntries))

NextMalformed ==
    \/ CallGetLifelogs(MalformedListInputs)
    \/ CallGetLifelogEntry(EntryInputs)
    \/ CallSearchLifelogs(MalformedSearchInputs)
    \/ ResolveAny
    \/ Fail
    \/ Return

SpecMalformed == InitMalformed /\ [][NextMalformed]_vars

\* Specification SpecStarred: the starred resource against a lifelog one
\* entry longer than the page the handler asks for.
StarBodies == EntryBodies({<<"a">>}, {1}, {Absent}, {<< >>}, {FALSE, TRUE})

LongSources ==
    {[i \in 1..(DefaultLimit + 1) |-> WithId(f[i], i)] :
        f \in [1..(DefaultLimit + 1) -> StarBodies]}

InitStarred == Start(LongSources)

NextStarred ==
    \/ ReadResource({"starred-lifelogs"}, Clocks)
    \/ Resolve
    \/ Fail
    \/ Return

SpecStarred == InitStarred /\ [][NextStarred]_vars

\* Specification SpecTargets: getLifelogEntry with ids over the characters
\* a URL reads specially.
IdChars == {"e", "1", "/", "?", "#", "..", "lifelogs"}

IdsOfLen(n) == [1..n -> IdChars]

TargetInputs == [lifelog_id : UNION {IdsOfLen(n) : n \in 0..3}]

TargetBodies == EntryBodies({<<"a">>}, {1}, {Absent}, {<< >>}, {FALSE})

InitTargets == Start(RemoteSources(TargetBodies, 2))

NextTargets ==
    \/ CallGetLifelogEntry(TargetInputs)
    \/ ResolveTarget
    \/ FailTarget
    \/ Return

SpecTargets == InitTargets /\ [][NextTargets]_vars

\* Specification SpecSurface: everything the server exposes, tools and
\* resources, against entries that may be starred.
SurfaceBodies == EntryBodies({<<"a">>}, Days, {Absent}, {<< >>}, {FALSE, TRUE})

SurfaceListInputs ==
    {p \in ListInputs : p = [NoListParams EXCEPT !.date = p.date, !.limit = p.limit]}

SurfaceSearchInputs ==
    {p \in SearchInputs({<<"a">>, <<"sigma">>}, Days, {}, {}, Limits) :
        p.date_to = Absent}

InitSurface == Start(RemoteSources(SurfaceBodies, MaxEntries))

NextSurface ==
    \/ CallGetLifelogs(SurfaceListInputs)
    \/ CallGetLifelogEntry(EntryInputs)
    \/ CallSearchLifelogs(SurfaceSearchInputs)
    \/ ReadResource(ResourceNames, Clocks)
    \/ Resolve
    \/ Fail
    \/ Return

SpecSurface == InitSurface /\ [][NextSurface]_vars

\* Specification SpecResources: the four resources against a source that
\* may fail and whose 2xx bodies may lie outside the response schema.
InitResources == Start(RemoteSources(SurfaceBodies, MaxEntries))

NextResources ==
    \/ ReadResource(ResourceNames, Clocks)
    \/ ResolveAny
    \/ Fail
    \/ Return

SpecResources == InitResources /\ [][NextResources]_vars

\* Specification SpecStartup: the process from its start, under every
\* environment and configuration, with one tool to call once it runs.
KeyChars == {" ", "k"}
Keys == UNION {[1..n -> KeyChars] : n \in 0..MaxLen}

Envs ==
    [LIMITLESS_API_KEY : Opt(Keys),
     LIMITLESS_BASE_URL : Opt({"https://example.test", "not a url"})]

HostConfigs == [apiKey : Opt(Keys), baseUrl : Opt({"https://example.test"})]

StartupInputs == {p \in ListInputs : p = [NoListParams EXCEPT !.limit = p.limit]}

InitStartup ==
    /\ remote \in RemoteSources(Bodies, 1)
    /\ pc = "idle"
    /\ call = NoCall
    /\ sent = << >>
    /\ response = Absent
    /\ result = NoResult
    /\ output = NoOutput
    /\ rejection = Absent
    /\ env \in Envs
    /\ api = Absent
    /\ server \in {NotStarted(v) : v \in Versions}
    /\ history = Absent
    /\ slots = << >>
    /\ walk = << >>

NextStartup ==
    \/ Main
    \/ HostCreateServer(HostConfigs)
    \/ Connect
    \/ ConnectFails
    \/ CallGetLifelogs(StartupInputs)
    \/ Resolve
    \/ Fail
    \/ Return

SpecStartup == InitStartup /\ [][NextStartup]_vars

----------------------------------------------------------------------------
(* Properties *)

\* A searchLifelogs invocation has completed on a fetched page.
Searched ==
    /\ pc = "done"
    /\ call.tool = "searchLifelogs"
    /\ response # Absent

FetchedPage == response[1].lifelogs

\* q occurs in s: s is some prefix, then q, then some suffix.
OccursIn(q, s) ==
    \E i \in 1..(Len(s) + 1) : \E j \in (i - 1)..Len(s) : SubSeq(s, i, j) = q

TitleHas(e, q) == OccursIn(ToLowerCase(q), ToLowerCase(e.title))
MarkdownHas(e, q) ==
    e.markdown # Absent /\ OccursIn(ToLowerCase(q), ToLowerCase(e.markdown[1]))
ContentsHave(e, q) ==
    \E i \in 1..Len(e.contents) :
        OccursIn(ToLowerCase(q), ToLowerCase(e.contents[i].content))

IsMatch(e, q) == TitleHas(e, q) \/ MarkdownHas(e, q) \/ ContentsHave(e, q)

Returned(e) == \E k \in 1..Len(result.lifelogs) : result.lifelogs[k] = e

\* C1: searchLifelogs returns exactly the entries of the fetched page for
\* which the lower-cased query is a substring of the lower-cased title, of
\* the lower-cased markdown when present, or of the lower-cased content of
\* some content item: no match is omitted, no non-match is returned.
C1_SearchReturnsExactlyMatches ==
    Searched =>
        /\ \A i \in 1..Len(FetchedPage) :
              Returned(FetchedPage[i]) <=> IsMatch(FetchedPage[i], call.params.query)
        /\ \A k \in 1..Len(result.lifelogs) :
              \E i \in 1..Len(FetchedPage) : FetchedPage[i] = result.lifelogs[k]

\* A page of which one entry matches by a content item alone, one by its
\* markdown alone, and one does not match and is left out.
C1_Witness ==
    /\ Searched
    /\ \E i, j, k \in 1..Len(FetchedPage) :
        LET q == call.params.query IN
        /\ ContentsHave(FetchedPage[i], q)
        /\ ~TitleHas(FetchedPage[i], q) /\ ~MarkdownHas(FetchedPage[i], q)
        /\ Returned(FetchedPage[i])
        /\ MarkdownHas(FetchedPage[j], q)
        /\ ~TitleHas(FetchedPage[j], q) /\ ~ContentsHave(FetchedPage[j], q)
        /\ Returned(FetchedPage[j])
        /\ ~IsMatch(FetchedPage[k], q) /\ ~Returned(FetchedPage[k])

\* r is obtained from s by deleting elements: some strictly increasing
\* choice of positions of s spells r.
IsSubsequence(r, s) ==
    \E f \in [1..Len(r) -> 1..Len(s)] :
        /\ \A k \in 1..Len(r) : r[k] = s[f[k]]
        /\ \A k \in 1..(Len(r) - 1) : f[k] < f[k + 1]

\* C2: the entries searchLifelogs returns are a subsequence of the fetched
\* page: each occurs in the page unaltered, none twice, and in the page's
\* relative order.
C2_SearchResultIsSubsequence ==
    Searched => IsSubsequence(result.lifelogs, FetchedPage)

\* Two entries are returned around one that is dropped between them.
C2_Witness ==
    /\ Searched
    /\ Len(FetchedPage) = 3
    /\ result.lifelogs = <<FetchedPage[1], FetchedPage[3]>>

\* C3: the meta searchLifelogs returns is the meta of the fetched page
\* (absent when the page has none), whatever the query and however many
\* entries match.
C3_SearchMetaPassedThrough ==
    Searched => result.meta = response[1].meta

\* The page's count is passed on although fewer entries matched.
C3_Witness ==
    /\ Searched
    /\ result.meta # Absent
    /\ result.meta = response[1].meta
    /\ Len(result.lifelogs) < Len(FetchedPage)
    /\ result.meta[1].count = Len(FetchedPage)

\* The letter a character is a case form of.
LetterOf(c) ==
    CASE c \in {"a", "A"} -> "a"
      [] c \in {"sigma", "SIGMA", "fsigma"} -> "sigma"
      [] OTHER -> c

\* s and t differ at most in the case of their letters.
SameUpToCase(s, t) ==
    /\ Len(s) = Len(t)
    /\ \A i \in 1..Len(s) : LetterOf(s[i]) = LetterOf(t[i])

\* C4: search matching is case-insensitive: a query that differs from the
\* given one only in letter case selects the same entries of the same
\* fetched page.
C4_SearchIsCaseInsensitive ==
    Searched =>
        \A q \in TextsUpTo(MaxLen) :
            SameUpToCase(q, call.params.query) =>
                SearchResponse(response[1],
                               [call.params EXCEPT !.query = q]).lifelogs
                    = result.lifelogs

\* No entry of the fetched page matches the query.
NothingMatches ==
    \A i \in 1..Len(FetchedPage) : ~IsMatch(FetchedPage[i], call.params.query)

\* C5: when the list call succeeds and no entry of the fetched page
\* matches, searchLifelogs completes with an empty entry list and the tool
\* returns the normal "No lifelog entries found matching" text, not an error.
C5_NoMatchIsEmptyPageNotError ==
    (Searched /\ NothingMatches) =>
        /\ result.kind = "page"
        /\ result.lifelogs = << >>
        /\ ~output.isError
        /\ output.text = "No lifelog entries found matching"
        /\ output.query = Some(call.params.query)

\* A search over a page that holds entries, none of which matches.
C5_Witness ==
    /\ Searched
    /\ Len(FetchedPage) >= 2
    /\ NothingMatches
    /\ result.lifelogs = << >>
    /\ ~output.isError

\* A searchLifelogs invocation has issued its request.
SearchIssued == call.tool = "searchLifelogs" /\ sent # << >>

C7_SearchRestrictedToDateRange ==
    Searched =>
        \A k \in 1..Len(result.lifelogs) :
            /\ call.params.date_to # Absent =>
                  result.lifelogs[k].startDay <= call.params.date_to[1]
            /\ call.params.date_from # Absent =>
                  result.lifelogs[k].startDay >= call.params.date_from[1]

\* The invocation is a list or search call whose limit is not in 1..10.
LimitOutOfRange ==
    /\ call.tool \in {"getLifelogs", "searchLifelogs"}
    /\ call.args.limit # Absent
    /\ call.args.limit[1] \notin MinLimit..MaxLimit

\* The invocation was refused with a validation error (it is never
\* in flight and never answered any other way).
Refused ==
    /\ pc = "done"
    /\ output.isError
    /\ output.text = "Invalid arguments"
    /\ result.kind = "none"

\* C8: a list or search call whose limit is outside 1..10 is refused with a
\* validation error and sends nothing; a limit that is sent is the limit
\* the caller gave, never one moved into range.
C8_LimitOutOfRangeRejected ==
    /\ LimitOutOfRange => (Refused /\ sent = << >>)
    /\ \A k \in 1..Len(sent) :
          (call.tool \in {"getLifelogs", "searchLifelogs"}
             /\ call.args.limit # Absent)
            => sent[k].params.limit = call.args.limit

\* A search with limit 11 has been refused.
C8_Witness ==
    /\ call.tool = "searchLifelogs"
    /\ call.args.limit = Some(MaxLimit + 1)
    /\ Len(call.args.query) >= 1
    /\ Refused
    /\ sent = << >>

\* The invocation is a get-by-id with an empty id or a search with an
\* empty query.
EmptyIdOrQuery ==
    \/ call.tool = "getLifelogEntry" /\ call.args.lifelog_id = << >>
    \/ call.tool = "searchLifelogs" /\ call.args.query = << >>

\* C9: a get-by-id call with an empty id and a search call with an empty
\* query are each refused with a validation error and send nothing.
C9_EmptyIdOrQueryRejected ==
    EmptyIdOrQuery => (Refused /\ sent = << >>)

\* A get-by-id with the empty id has been refused.
C9_Witness ==
    /\ call.tool = "getLifelogEntry"
    /\ call.args.lifelog_id = << >>
    /\ Refused
    /\ sent = << >>

\* C10: an invocation that passed validation has performed exactly one
\* outbound request when it is in flight and when it has completed,
\* whether it completed with a result or with an error.
C10_ExactlyOneRequestPerCall ==
    /\ pc = "awaiting" => Len(sent) = 1
    /\ (pc = "done" /\ ~Refused) =>
          /\ Len(sent) = 1
          /\ result.kind \in {"page", "entry", "error"}

\* A call has failed after its one request.
C10_Witness ==
    /\ pc = "done"
    /\ result.kind = "error"
    /\ Len(sent) = 1

\* The single request of the invocation was rejected.
Failed == pc = "done" /\ rejection # Absent

EmbeddedStatus == result.error[1].status
EmbeddedMessage == result.error[1].message

\* The status the error embeds is the response's, "unknown" without a
\* response.
StatusEmbedded ==
    /\ result.kind = "error"
    /\ rejection[1].status # Absent => EmbeddedStatus = rejection[1].status
    /\ rejection[1].status = Absent => EmbeddedStatus = Some("unknown")

\* C11 as stated: a rejected list or get-by-id request fails the call with an
\* error that embeds the response's status ("unknown" without a response) and
\* the message of the error body whenever the body has one, else the
\* transport's message.
C11_ErrorEmbedsBodyMessageWhenPresent ==
    Failed =>
        /\ StatusEmbedded
        /\ rejection[1].bodyMessage # Absent
              => EmbeddedMessage = rejection[1].bodyMessage[1]
        /\ rejection[1].bodyMessage = Absent
              => EmbeddedMessage = rejection[1].message

\* C11 amended: a rejected list or get-by-id request fails the call with an
\* error that embeds the response's status ("unknown" without a response) and
\* the message of the error body when the body has a non-empty one, else
\* (no message, or an empty one) the transport's message.
C11_ErrorEmbedsNonEmptyBodyMessage ==
    Failed =>
        /\ StatusEmbedded
        /\ IF rejection[1].bodyMessage # Absent /\ rejection[1].bodyMessage[1] # ""
           THEN EmbeddedMessage = rejection[1].bodyMessage[1]
           ELSE EmbeddedMessage = rejection[1].message

\* A get-by-id of an unknown id was answered 404 with a message in the body.
C11_Witness ==
    /\ Failed
    /\ call.tool = "getLifelogEntry"
    /\ rejection[1].status = Some("404")
    /\ EmbeddedStatus = Some("404")
    /\ EmbeddedMessage = "Lifelog not found"

\* A credential that is missing, empty or made of white space only.
Blank(key) == key = Absent \/ \A i \in 1..Len(key[1]) : key[1][i] = " "

\* createServer was called and neither its configuration nor the environment
\* holds a credential.
StartedWithoutCredential ==
    /\ server.entry # "none"
    /\ Blank(server.config[1].apiKey)
    /\ Blank(env.LIMITLESS_API_KEY)

\* C12: started without a credential in the configuration and in
\* LIMITLESS_API_KEY, the client's construction fails: no HTTP client exists,
\* nothing is registered, the server does not connect, main exits with a
\* non-zero code; and no request is ever sent without a credential.
C12_NoCredentialNoServer ==
    /\ StartedWithoutCredential =>
          /\ api = Absent
          /\ server.registered = {}
          /\ server.phase \notin {"connecting", "running"}
          /\ server.entry = "main" =>
                /\ server.phase = "exited"
                /\ server.exitCode # Absent
                /\ server.exitCode[1] # 0
    /\ sent # << >> => api # Absent /\ ~Blank(Some(api[1].apiKey))

\* main() ran with a key of one space in the environment and has exited.
C12_Witness ==
    /\ StartedWithoutCredential
    /\ server.entry = "main"
    /\ env.LIMITLESS_API_KEY = Some(<<" ">>)
    /\ server.phase = "exited"

Tools == {"getLifelogs", "getLifelogEntry", "searchLifelogs"}

\* C13 as stated: whenever the fetch fails, the tool or resource that was
\* invoked surfaces the failure to the caller as an error, never as a normal
\* result.
C13_FailureSurfacedAsError ==
    Failed => output.isError /\ output.error = result.error

\* C13 amended: whenever the fetch fails, a tool surfaces the failure as an
\* error; a resource returns a normal result whose one text/plain item
\* carries the error's message.  Neither returns any entry with it.
C13_FailureReportedWithoutEntries ==
    Failed =>
        /\ result.kind = "error"
        /\ output.error = result.error
        /\ output.shown = << >>
        /\ output.count = 0
        /\ call.tool \in Tools => output.isError
        /\ call.tool \in ResourceNames =>
              /\ ~output.isError
              /\ output.mimeType = Some("text/plain")
              /\ output.uri = Some(ResourceUri(call.tool))

\* The read of the week resource failed without a response and came back as
\* a normal text/plain result.
C13_Witness ==
    /\ Failed
    /\ call.tool = "week-lifelogs"
    /\ rejection[1].status = Absent
    /\ ~output.isError
    /\ output.mimeType = Some("text/plain")

\* A getLifelogs invocation has completed with the arguments of an earlier
\* one the observer remembers.
Repeated ==
    /\ pc = "done"
    /\ call.tool = "getLifelogs"
    /\ history # Absent
    /\ call.args = history[1].args

\* Between invocations nothing of an earlier one is left in the program.
NothingKept ==
    pc = "idle" =>
        /\ call = NoCall /\ sent = << >> /\ response = Absent
        /\ result = NoResult /\ output = NoOutput /\ rejection = Absent

\* C14: after any earlier invocations, successful or failed, a getLifelogs
\* invocation with the arguments of an earlier one sends the same request
\* and, answered from the same remote data, returns the same page, whatever
\* the earlier one ended with; between invocations nothing is kept.
C14_RepeatedCallSameRequestSamePage ==
    /\ NothingKept
    /\ Repeated =>
          /\ sent = history[1].sent
          /\ response # Absent /\ history[1].response # Absent
                => result.lifelogs = history[1].result.lifelogs
          /\ response # Absent /\ response = history[1].response
                => result = history[1].result /\ output = history[1].output

\* The second page was fetched again after the earlier fetch of it failed.
C14_Witness ==
    /\ Repeated
    /\ call.args.cursor = Some(1)
    /\ history[1].result.kind = "error"
    /\ result.kind = "page"
    /\ Len(result.lifelogs) > 0

\* Every way the invocation inv can end when it runs alone against db:
\* what it sent, what the client method returned and what the host received.
AloneOutcomes(inv, db) ==
    IF ~Accepts(inv.tool, inv.args)
    THEN {[sent |-> << >>, result |-> NoResult, output |-> InvalidParams]}
    ELSE LET params == ParsedArgs(inv.tool, inv.args)
             c == [tool |-> inv.tool, args |-> inv.args, params |-> params]
             req == RequestFor(inv.tool, params)
         IN  {[sent |-> <<req>>, result |-> ClientReturn(c, body),
               output |-> ToolOutput(c, ClientReturn(c, body))] :
                  body \in RemoteBodies(db, req)}
             \cup
             {[sent |-> <<req>>, result |-> Thrown(HandleRequestError(f)),
               output |-> ToolError(HandleRequestError(f))] :
                  f \in RemoteFailures(db, req)}

SlotOutcome(slot) ==
    [sent |-> slot.sent, result |-> slot.result, output |-> slot.output]

\* C15: however the invocations of several callers interleave, each one
\* sends the request and ends with a result it can send and end with when it
\* runs alone against the same remote data, and the configuration of the HTTP
\* client stays the one set at construction.
C15_ConcurrentCallsIndependent ==
    /\ api = ServingApi
    /\ \A c \in DOMAIN slots :
          slots[c].pc = "done" =>
              SlotOutcome(slots[c]) \in
                  AloneOutcomes([tool |-> slots[c].call.tool,
                                 args |-> slots[c].call.args], remote)

\* One caller's getLifelogs has returned a page while the other caller's
\* get-by-id, issued before, is still in flight.
C15_Witness ==
    /\ DOMAIN slots = Callers
    /\ slots["c1"].pc = "done"
    /\ slots["c1"].call.tool = "getLifelogs"
    /\ slots["c1"].result.kind = "page"
    /\ Len(slots["c1"].result.lifelogs) > 0
    /\ slots["c2"].pc = "awaiting"
    /\ slots["c2"].call.tool = "getLifelogEntry"

\* getLifelogs was invoked with a limit the schema accepts and sent its
\* request.
ListedWithLimit ==
    /\ call.tool = "getLifelogs"
    /\ sent # << >>
    /\ call.args.limit # Absent

\* C16: invoked with a limit in 1..10, getLifelogs sends one GET of the list
\* path whose parameters are exactly the caller's (date, timezone,
\* start_time, end_time, cursor, sort_direction, limit): none added, none
\* dropped, none changed.
C16_GetLifelogsSendsCallersParams ==
    ListedWithLimit =>
        /\ call.args.limit[1] \in MinLimit..MaxLimit
        /\ Len(sent) = 1
        /\ sent[1].method = "GET"
        /\ sent[1].path = ListPath
        /\ sent[1].params = call.args

\* A request for the largest page from a cursor, without date or direction.
C16_Witness ==
    /\ ListedWithLimit
    /\ pc = "done"
    /\ call.args.limit = Some(MaxLimit)
    /\ call.args.date = Absent
    /\ call.args.sort_direction = Absent
    /\ call.args.cursor # Absent
    /\ sent[1].params.date = Absent
    /\ sent[1].params.limit = Some(MaxLimit)

\* A list or search invocation has returned a page.
PageReturned ==
    /\ pc = "done"
    /\ call.tool \in {"getLifelogs", "searchLifelogs"}
    /\ result.kind = "page"

RequestedLimit == call.params.limit[1]

\* C17 as stated: every page a list or search invocation returns holds at
\* least one entry and at most as many as the requested limit, which is at
\* most 10.
C17_PageSizeAtLeastOne ==
    PageReturned =>
        /\ 1 <= Len(result.lifelogs)
        /\ Len(result.lifelogs) <= RequestedLimit
        /\ RequestedLimit <= MaxLimit

\* C17 amended: every page a list or search invocation returns holds no more
\* entries than the page the source gave, which holds no more than the
\* requested limit, a number from 1 to 10; the page may be empty.
C17_PageSizeWithinLimit ==
    PageReturned =>
        /\ 0 <= Len(result.lifelogs)
        /\ Len(result.lifelogs) <= Len(response[1].lifelogs)
        /\ Len(response[1].lifelogs) <= RequestedLimit
        /\ MinLimit <= RequestedLimit
        /\ RequestedLimit <= MaxLimit

\* A search with the default limit came back with an empty page although
\* the source gave entries.
C17_Witness ==
    /\ PageReturned
    /\ call.tool = "searchLifelogs"
    /\ call.args.limit = Absent
    /\ Len(result.lifelogs) = 0
    /\ Len(response[1].lifelogs) > 0

\* The request got no response: it ran into the timeout or was cancelled.
TimedOutOrCancelled ==
    /\ Failed
    /\ rejection[1].status = Absent
    /\ rejection[1].message \in {"timeout of 30000ms exceeded", "canceled"}

\* C18: when the one request of an invocation times out or is cancelled, the
\* invocation fails with an error of status "unknown" that carries the
\* transport's message, and returns no entry at all.
C18_TimeoutFailsWithoutEntries ==
    TimedOutOrCancelled =>
        /\ Len(sent) = 1
        /\ response = Absent
        /\ result.kind = "error"
        /\ EmbeddedStatus = Some("unknown")
        /\ EmbeddedMessage = rejection[1].message
        /\ result.lifelogs = << >>
        /\ result.entry = Absent
        /\ output.isError
        /\ output.shown = << >>
        /\ output.count = 0

\* A search whose request ran into the 30 second timeout although the
\* source holds entries.
C18_Witness ==
    /\ TimedOutOrCancelled
    /\ call.tool = "searchLifelogs"
    /\ rejection[1].message = "timeout of 30000ms exceeded"
    /\ api[1].timeout = TimeoutMs
    /\ Len(remote) > 0
    /\ output.isError

\* A list or search tool invocation has completed on a page whose meta names
\* a following page.
FetchedWithNextCursor ==
    /\ pc = "done"
    /\ call.tool \in {"getLifelogs", "searchLifelogs"}
    /\ response # Absent
    /\ response[1].meta # Absent
    /\ response[1].meta[1].nextCursor # Absent

\* What the tool would have handed back, had the page named cursor c as the
\* following page.
OutputWithNextCursor(c) ==
    LET body == [response[1] EXCEPT
                    !.meta = Some([response[1].meta[1] EXCEPT !.nextCursor = c])]
    IN  ToolOutput(call, ClientReturn(call, body))

\* C19: when the fetched page names a following page, the tool's result
\* tells the caller which: it is not the result the tool gives for the same
\* page naming another cursor, or none.
C19_ToolResultCarriesNextCursor ==
    FetchedWithNextCursor =>
        \A c \in Opt(0..MaxEntries) \ {response[1].meta[1].nextCursor} :
            OutputWithNextCursor(c) # output

\* The entries of the range the traversal is about, in the source's order.
WalkRange == RemoteDated(remote, NoListParams)

\* What the caller is to have when it stops: the range, or for a search the
\* entries of the range that match the query.
WalkExpected ==
    IF walk.tool = "searchLifelogs"
    THEN SelectSeq(WalkRange, LAMBDA e : IsMatch(e, walk.args.query))
    ELSE WalkRange

\* C20: a caller that pages with the cursor and stops at the first page
\* shorter than the limit has then received every entry of the range once,
\* and for a search every matching entry of the range.
C20_StoppingAtShortPageMissesNothing ==
    walk # << >> /\ walk.phase = "stopped" => walk.collected = WalkExpected

\* A searchLifelogs invocation has completed, on a page or on a rejection.
SearchCompleted ==
    /\ pc = "done"
    /\ call.tool = "searchLifelogs"
    /\ sent # << >>

\* C21: searchLifelogs fails exactly when its list request fails, and then
\* with the error of that failure; on any page the list request returns,
\* entries with fields missing included, the filter raises nothing.
C21_SearchFailsOnlyWhenListFails ==
    SearchCompleted =>
        /\ result.kind = "error" <=> rejection # Absent
        /\ result.kind = "error" =>
              result.error = Some(HandleRequestError(rejection[1]))

\* On a body that conforms to its schema the reading of any body is the
\* reading of a conforming one.
AnyAgreesOnConforming ==
    pc = "done" /\ response # Absent /\ BodyConforms(sent[1], response[1]) =>
        /\ result = ClientReturn(call, response[1])
        /\ output = ToolOutput(call, result)

\* A tool invocation has completed on a 2xx body outside its response schema.
NonConformingReceived ==
    /\ pc = "done"
    /\ response # Absent
    /\ ~BodyConforms(sent[1], response[1])

\* C22: a 2xx response whose body does not conform to the list or
\* single-entry response schema is refused with an error: the client method
\* returns nothing of it and the handler formats nothing of it.
C22_NonConformingResponseRejected ==
    NonConformingReceived =>
        /\ result.kind = "error"
        /\ output.isError
        /\ output.shown = << >>

\* createServer has returned a server.
ServerCreated == server.phase \in {"connecting", "running"}

\* C23: a server createServer has returned has the tools, the resources and
\* the prompts registered; when createServer threw there is no server and
\* nothing is registered.
C23_CreateServerRegistersAllKinds ==
    /\ ServerCreated => server.registered = {"tools", "resources", "prompts"}
    /\ server.phase \in {"failed", "exited"} /\ api = Absent
          => server.registered = {}

\* Every request sent is a GET of the list endpoint or of the endpoint of
\* one entry.
OnlyReads ==
    \A i \in 1..Len(sent) :
        /\ sent[i].method = "GET"
        /\ \/ sent[i].path = ListPath
           \/ /\ call.tool = "getLifelogEntry"
              /\ sent[i].path = ListPath \o <<"/">> \o call.args.lifelog_id

\* C24: no step of a tool or a resource changes the remote data, every
\* request it sends is a GET of /v1/lifelogs or of /v1/lifelogs/{id}, and
\* once the handler has returned no fetched entry is kept.
C24_ReadOnly ==
    [][/\ remote' = remote
       /\ OnlyReads'
       /\ pc' = "idle" => response' = Absent /\ result' = NoResult]_vars

\* A get-by-id has returned its entry after one GET.
C24_Witness ==
    /\ pc = "done"
    /\ call.tool = "getLifelogEntry"
    /\ Len(sent) = 1
    /\ sent[1].method = "GET"
    /\ result.kind = "entry"

\* A read of the week resource has completed on a fetched page.
WeekRead ==
    /\ pc = "done"
    /\ call.tool = "week-lifelogs"
    /\ response # Absent

\* The Monday the handler computed from the clock it read.
WeekStart == call.args.day + MondayOffset(call.args.dayOfWeek)

Listed(e) == \E k \in 1..Len(output.shown) : output.shown[k].id = e.id

\* C25: the week resource computes as week start the Monday on or before
\* today (0 to 6 days back) and lists every entry dated from that Monday
\* through the following Sunday.
C25_WeekResourceListsWholeWeek ==
    WeekRead =>
        /\ call.args.day - WeekStart \in 0..6
        /\ call.params.date = Some(WeekStart)
        /\ \A i \in 1..Len(remote) :
              remote[i].startDay \in WeekStart..(WeekStart + 6)
                  => Listed(remote[i])

\* A read of the starred resource has completed on a fetched page.
StarredRead ==
    /\ pc = "done"
    /\ call.tool = "starred-lifelogs"
    /\ response # Absent

\* C26: the starred resource lists starred entries only, and every starred
\* entry of the lifelog.
C26_StarredResourceListsAllStarred ==
    StarredRead =>
        /\ \A k \in 1..Len(output.shown) : output.shown[k].starred
        /\ \A i \in 1..Len(remote) : remote[i].isStarred => Listed(remote[i])

\* A resource read has completed.
ResourceRead == pc = "done" /\ call.tool \in ResourceNames

\* The entries the resource is to list from the page it got.
ToList ==
    IF call.tool = "starred-lifelogs"
    THEN SelectSeq(result.lifelogs, LAMBDA e : e.isStarred)
    ELSE result.lifelogs

\* C27: a resource read always completes normally with one content item
\* under the resource's own URI: after a failed fetch plain text with the
\* error's message, on an empty result plain text saying so, otherwise
\* markdown that lists exactly the fetched (for starred: the starred)
\* entries, in their order.
C27_ResourceAlwaysReturnsOneItem ==
    ResourceRead =>
        /\ ~output.isError
        /\ output.uri = Some(ResourceUri(call.tool))
        /\ IF result.kind = "error" \/ ~Has(result, "lifelogs")
           THEN /\ output.mimeType = Some("text/plain")
                /\ output.error # Absent
                /\ result.kind = "error" => output.error = result.error
                /\ output.shown = << >>
           ELSE IF Len(ToList) = 0
           THEN /\ output.mimeType = Some("text/plain")
                /\ output.error = Absent
                /\ output.shown = << >>
           ELSE /\ output.mimeType = Some("text/markdown")
                /\ Len(output.shown) = Len(ToList)
                /\ \A k \in 1..Len(ToList) : output.shown[k].id = ToList[k].id

\* The starred resource listed one entry of a page of several.
C27_Witness ==
    /\ ResourceRead
    /\ call.tool = "starred-lifelogs"
    /\ result.kind = "page"
    /\ Has(result, "lifelogs")
    /\ Len(result.lifelogs) > 1
    /\ Len(output.shown) = 1
    /\ output.mimeType = Some("text/markdown")

\* C28: a getLifelog request goes to the single-entry endpoint of the id
\* it was given, whatever characters the id holds: its path is
\* /v1/lifelogs/<id> and it has no query, so no id addresses the list
\* endpoint, another entry or another path, and distinct ids have distinct
\* targets.
C28_RequestTargetsEntryOfId ==
    (pc # "idle" /\ call.tool = "getLifelogEntry" /\ Len(sent) > 0)
        => Target(sent[Len(sent)].path) = EntryTarget(call.params.lifelog_id)

\* getLifelog has returned or thrown.
GetLifelogCompleted ==
    pc = "done" /\ call.tool = "getLifelogEntry" /\ Len(sent) > 0

\* C29: getLifelog has two outcomes only, whatever the source answers: a
\* defined entry, or an error whose message starts with "Limitless API
\* error"; never an absent value as success, never an unwrapped error.
C29_GetLifelogEntryOrWrappedError ==
    GetLifelogCompleted =>
        \/ result.kind = "entry" /\ result.entry # Absent
        \/ /\ result.kind = "error"
           /\ result.error # Absent
           /\ result.error[1].prefix = "Limitless API error"

====
